---------------------------- MODULE Spec2Model ----------------------------
(***************************************************************************)
(* File Diff Viewer (src/main.py): an uploaded text is detected as JSON or *)
(* XML, parsed, transformed by fixed edits, pretty-printed, diffed line by *)
(* line and offered for download.                                          *)
(*                                                                         *)
(* Text is a sequence of tokens.  A token stands for one character or one  *)
(* indivisible piece of markup (a start tag, an indentation unit, a JSON   *)
(* punctuation mark); a line is the token sequence between two "\n".       *)
(* Python objects live on a heap (a sequence of nodes, a reference is an   *)
(* index, 0 is None), so that aliasing and in-place mutation are visible.  *)
(***************************************************************************)
EXTENDS Integers, Sequences, FiniteSets, TLC

VARIABLES
    pc,             \* position of main() in the current script run
    content,        \* uploaded_file.read().decode("utf-8"), as tokens
    heap,           \* the Python objects allocated in this run
    original_data,  \* reference returned by load_file (0: None)
    file_type,      \* "json" | "xml" | "" before detection
    modified_data,  \* the transformer's copy (lines 49, 71), then what it returns
    loaded,         \* ghost: the value original_data had when load_file returned
    diff_lines,     \* result of generate_diff
    page            \* the Streamlit elements emitted by this run, in order

vars == <<pc, content, heap, original_data, file_type, modified_data, loaded,
          diff_lines, page>>

-----------------------------------------------------------------------------
(* Bounds of the explored inputs *)

\* an uploaded XML document has at most this many elements
MaxNodes == 3
\* an uploaded JSON array has at most this many elements
MaxLen == 2

-----------------------------------------------------------------------------
(* Generic sequence helpers *)

Last(s) == s[Len(s)]

\* the concatenation of the sequences of ss, by halves
RECURSIVE Flatten(_)
Flatten(ss) ==
    IF Len(ss) = 0 THEN <<>>
    ELSE IF Len(ss) = 1 THEN ss[1]
    ELSE Flatten(SubSeq(ss, 1, Len(ss) \div 2))
         \o Flatten(SubSeq(ss, Len(ss) \div 2 + 1, Len(ss)))

SeqMap(F(_), s) == [i \in 1..Len(s) |-> F(s[i])]

Range(s) == {s[i] : i \in 1..Len(s)}

\* str.startswith for a run of plain tokens
StartsWith(s, p) == Len(s) >= Len(p) /\ SubSeq(s, 1, Len(p)) = p

-----------------------------------------------------------------------------
(* Tokens *)

Tok(k, v) == [k |-> k, v |-> v, at |-> <<>>]
Chr(c) == Tok("chr", c)
NL == Chr("\n")
IndentUnit == Chr("  ")
Chars(s) == [i \in 1..Len(s) |-> Chr(s[i])]

\* str.split("\n"): a line ends before every "\n" and at the end of the text
LineEnds(toks) ==
    SelectSeq([i \in 1..(Len(toks) + 1) |-> i],
              LAMBDA i : i = Len(toks) + 1 \/ toks[i] = NL)
LinesBetween(toks, ends) ==
    [k \in 1..Len(ends) |->
        SubSeq(toks, (IF k = 1 THEN 0 ELSE ends[k - 1]) + 1, ends[k] - 1)]
SplitLines(toks) == LinesBetween(toks, LineEnds(toks))

\* "\n".join(lines)
JoinLines(lines) ==
    Flatten([i \in 1..Len(lines) |-> IF i = 1 THEN lines[i] ELSE <<NL>> \o lines[i]])

IsSpace(t) == t.k = "chr" /\ t.v \in {" ", "  ", "\n"}

\* str.lstrip(), str.rstrip(), str.strip(): what lies from the first, to the
\* last, token that is not white space
Inked(toks, i) == ~IsSpace(toks[i])
LStrip(toks) ==
    IF \A i \in 1..Len(toks) : ~Inked(toks, i) THEN <<>>
    ELSE SubSeq(toks, CHOOSE i \in 1..Len(toks) :
                          Inked(toks, i) /\ \A j \in 1..(i - 1) : ~Inked(toks, j),
                Len(toks))
RStrip(toks) ==
    IF \A i \in 1..Len(toks) : ~Inked(toks, i) THEN <<>>
    ELSE SubSeq(toks, 1, CHOOSE i \in 1..Len(toks) :
                             Inked(toks, i) /\ \A j \in (i + 1)..Len(toks) : ~Inked(toks, j))

Strip(toks) == RStrip(LStrip(toks))

-----------------------------------------------------------------------------
(* XML text: tokens, the parsers (expat), the writers *)

TagTok(k, tag, attrib) == [k |-> k, v |-> tag, at |-> attrib]
XmlDecl == Tok("decl", "xml")
IsMarkup(t) == t.k \in {"open", "close", "empty", "decl"}

\* DOM nodes (xml.dom.minidom): an element with its child nodes, or a text node
DomElem(tag, attrib, kids) ==
    [nt |-> "elem", tag |-> tag, at |-> attrib, data |-> <<>>, kids |-> kids]
DomText(data) ==
    [nt |-> "text", tag |-> "", at |-> <<>>, data |-> data, kids |-> <<>>]

\* character data reaching the innermost open element: adjacent data is
\* merged into one text node
AddData(stack, c) ==
    LET top == Last(stack)
        n == Len(top.kids)
        kids == IF n > 0 /\ top.kids[n].nt = "text"
                THEN [top.kids EXCEPT ![n].data = Append(@, c)]
                ELSE Append(top.kids, DomText(<<c>>))
    IN [stack EXCEPT ![Len(stack)].kids = kids]

AddKid(stack, node) == [stack EXCEPT ![Len(stack)].kids = Append(@, node)]

NoParse == [ok |-> FALSE, root |-> DomText(<<>>)]

\* The XML parser over a token stream.  A declaration is accepted only as
\* the very first token; outside the document element only white space is
\* accepted; end tags must match; exactly one document element.
RECURSIVE ParseXmlFrom(_, _, _, _)
ParseXmlFrom(toks, i, stack, root) ==
    IF i > Len(toks)
    THEN IF stack = <<>> /\ root # <<>> THEN [ok |-> TRUE, root |-> root[1]] ELSE NoParse
    ELSE LET t == toks[i] IN
      CASE t.k = "decl" ->
             IF i = 1 THEN ParseXmlFrom(toks, i + 1, stack, root) ELSE NoParse
        [] t.k = "open" ->
             IF stack = <<>> /\ root # <<>> THEN NoParse
             ELSE ParseXmlFrom(toks, i + 1, Append(stack, DomElem(t.v, t.at, <<>>)), root)
        [] t.k = "empty" ->
             IF stack = <<>>
             THEN IF root # <<>> THEN NoParse
                  ELSE ParseXmlFrom(toks, i + 1, stack, <<DomElem(t.v, t.at, <<>>)>>)
             ELSE ParseXmlFrom(toks, i + 1, AddKid(stack, DomElem(t.v, t.at, <<>>)), root)
        [] t.k = "close" ->
             IF stack = <<>> \/ Last(stack).tag # t.v THEN NoParse
             ELSE LET done == Last(stack)
                      rest == SubSeq(stack, 1, Len(stack) - 1)
                  IN IF rest = <<>>
                     THEN ParseXmlFrom(toks, i + 1, rest, <<done>>)
                     ELSE ParseXmlFrom(toks, i + 1, AddKid(rest, done), root)
        [] OTHER ->
             IF stack = <<>>
             THEN IF IsSpace(t) THEN ParseXmlFrom(toks, i + 1, stack, root) ELSE NoParse
             ELSE ParseXmlFrom(toks, i + 1, AddData(stack, t.v), root)

\* minidom.parseString
minidom_parseString(toks) == ParseXmlFrom(toks, 1, <<>>, <<>>)

\* ElementTree elements as values: text is the data before the first child,
\* tail the data after the element's end tag (<<>> stands for None)
Element(tag, attrib, text, tail, children) ==
    [tag |-> tag, attrib |-> attrib, text |-> text, tail |-> tail, children |-> children]

\* TreeBuilder: the element tree of a parsed document element
RECURSIVE TreeOf(_, _)
RECURSIVE TreesOf(_, _)
TreeOf(d, tail) ==
    LET lead == IF d.kids # <<>> /\ d.kids[1].nt = "text" THEN d.kids[1].data ELSE <<>>
    IN Element(d.tag, d.at, lead, tail, TreesOf(d.kids, 1))
TreesOf(kids, i) ==
    IF i > Len(kids) THEN <<>>
    ELSE IF kids[i].nt = "text" THEN TreesOf(kids, i + 1)
    ELSE LET tl == IF i < Len(kids) /\ kids[i + 1].nt = "text" THEN kids[i + 1].data ELSE <<>>
         IN <<TreeOf(kids[i], tl)>> \o TreesOf(kids, i + 1)

AsElement(p) ==
    IF p.ok THEN [ok |-> TRUE, elem |-> TreeOf(p.root, <<>>)]
    ELSE [ok |-> FALSE, elem |-> Element("", <<>>, <<>>, <<>>, <<>>)]

\* ET.fromstring: [ok, elem]; not ok stands for ET.ParseError
ET_fromstring(toks) == AsElement(minidom_parseString(toks))

\* ET.tostring(elem, "utf-8"), without the declaration
RECURSIVE SerializeXml(_)
SerializeXml(e) ==
    (IF e.text = <<>> /\ e.children = <<>>
     THEN <<TagTok("empty", e.tag, e.attrib)>>
     ELSE <<TagTok("open", e.tag, e.attrib)>> \o Chars(e.text)
          \o Flatten(SeqMap(SerializeXml, e.children)) \o <<Tok("close", e.tag)>>)
    \o Chars(e.tail)

ET_tostring(e) == <<XmlDecl, NL>> \o SerializeXml(e)

Indent(level) == [i \in 1..level |-> IndentUnit]

\* Node.writexml(writer, indent, addindent="  ", newl="\n")
RECURSIVE writexml(_, _)
writexml(node, level) ==
    IF node.nt = "text"
    THEN Indent(level) \o Chars(node.data) \o <<NL>>
    ELSE IF node.kids = <<>>
    THEN Indent(level) \o <<TagTok("empty", node.tag, node.at), NL>>
    ELSE IF Len(node.kids) = 1 /\ node.kids[1].nt = "text"
    THEN Indent(level) \o <<TagTok("open", node.tag, node.at)>>
         \o Chars(node.kids[1].data) \o <<Tok("close", node.tag), NL>>
    ELSE Indent(level) \o <<TagTok("open", node.tag, node.at), NL>>
         \o Flatten([i \in 1..Len(node.kids) |-> writexml(node.kids[i], level + 1)])
         \o Indent(level) \o <<Tok("close", node.tag), NL>>

\* Document.toprettyxml(indent="  ")
toprettyxml(dom) == <<XmlDecl, NL>> \o writexml(dom, 0)

\* prettify_xml on an element value
PrettifyTree(e) == toprettyxml(minidom_parseString(ET_tostring(e)).root)

-----------------------------------------------------------------------------
(* The heap of element objects *)

\* an Element object: children holds references
ElemObj(e, kids) ==
    [tag |-> e.tag, attrib |-> e.attrib, text |-> e.text, tail |-> e.tail, children |-> kids]

\* the elements of a tree in document order
RECURSIVE Elements(_)
Elements(e) == <<e>> \o Flatten([i \in 1..Len(e.children) |-> Elements(e.children[i])])

\* The objects of an element tree are built in document order, the object
\* of the root first.  ChildRef: the reference of the i-th child of e when
\* the object of e is at reference r.
ChildRef(e, r, i) == r + 1 + Len(Flatten([j \in 1..(i - 1) |-> Elements(e.children[j])]))
RECURSIVE XmlObjects(_, _)
XmlObjects(e, r) ==
    <<ElemObj(e, [i \in 1..Len(e.children) |-> ChildRef(e, r, i)])>>
    \o Flatten([i \in 1..Len(e.children) |-> XmlObjects(e.children[i], ChildRef(e, r, i))])

\* Build the objects of an element tree behind the ones of heap h: [h, r]
AllocXml(h, e) == [h |-> h \o XmlObjects(e, Len(h) + 1), r |-> Len(h) + 1]

\* the element tree a reference stands for
RECURSIVE DerefXml(_, _)
DerefXml(h, r) ==
    Element(h[r].tag, h[r].attrib, h[r].text, h[r].tail,
            [i \in 1..Len(h[r].children) |-> DerefXml(h, h[r].children[i])])

\* Element.iter(): the object itself, then its descendants, in document order
RECURSIVE Iter(_, _)
Iter(h, r) ==
    <<r>> \o Flatten([i \in 1..Len(h[r].children) |-> Iter(h, h[r].children[i])])

\* the objects reachable from a reference
ReachXml(h, r) == IF r = 0 THEN {} ELSE Range(Iter(h, r))

\* Element.findall(".//tag"): ElementPath selects "." (the element), then
\* "//tag": every e of elem.iter(tag) that is not elem itself; findall
\* returns the complete list before the caller's loop runs
findall_descendants(h, r, tag) ==
    SelectSeq(Tail(Iter(h, r)), LAMBDA e : h[e].tag = tag)

\* Element.findall("tag"): the direct children with that tag
findall_children(h, r, tag) ==
    SelectSeq(h[r].children, LAMBDA e : h[e].tag = tag)

\* Element.remove(child): drops the first child that is this object
RemoveFirst(kids, c) ==
    LET at == {i \in 1..Len(kids) : kids[i] = c}
    IN IF at = {} THEN kids
       ELSE LET i == CHOOSE j \in at : \A k \in at : j <= k
            IN SubSeq(kids, 1, i - 1) \o SubSeq(kids, i + 1, Len(kids))

\* modified_root = xml_root: the same objects under a second name
SameTree(h, r) == [h |-> h, r |-> r]

\* copy.deepcopy(xml_root): a fresh object for every element of the tree
deepcopy(h, r) == AllocXml(h, DerefXml(h, r))

\* lines 75-76: for team_name in params.findall("team_name"): params.remove(team_name)
RECURSIVE RemoveEach(_, _, _)
RemoveEach(h, params, found) ==
    IF found = <<>> THEN h
    ELSE RemoveEach([h EXCEPT ![params].children = RemoveFirst(@, Head(found))],
                    params, Tail(found))

\* lines 74-76
RECURSIVE DeleteTeamNames(_, _)
DeleteTeamNames(h, ps) ==
    IF ps = <<>> THEN h
    ELSE DeleteTeamNames(
             RemoveEach(h, Head(ps), findall_children(h, Head(ps), "team_name")),
             Tail(ps))

\* ET.SubElement(parent, tag) followed by new_elem.text = text
SubElement(h, parent, tag, text) ==
    LET r == Len(h) + 1
        obj == [tag |-> tag, attrib |-> <<>>, text |-> text, tail |-> <<>>,
                children |-> <<>>]
    IN [Append(h, obj) EXCEPT ![parent].children = Append(@, r)]

\* lines 79-81
RECURSIVE AddSomething(_, _)
AddSomething(h, ps) ==
    IF ps = <<>> THEN h
    ELSE AddSomething(SubElement(h, Head(ps), "something", <<"2">>), Tail(ps))

\* lines 84-85
RECURSIVE SetShotTypes(_, _)
SetShotTypes(h, ss) ==
    IF ss = <<>> THEN h
    ELSE SetShotTypes([h EXCEPT ![Head(ss)].text = <<"points">>], Tail(ss))

\* lines 74-76, 79-81, 84-85 on the tree of root r
Step1(c) == [h |-> DeleteTeamNames(c.h, findall_descendants(c.h, c.r, "parameters")), r |-> c.r]
Step2(c) == [h |-> AddSomething(c.h, findall_descendants(c.h, c.r, "parameters")), r |-> c.r]
Step3(c) == [h |-> SetShotTypes(c.h, findall_descendants(c.h, c.r, "shot_type")), r |-> c.r]

\* modify_xml(xml_root): [h, r], the heap after the call and the returned
\* reference modified_root
XmlEdits(c) == Step3(Step2(Step1(c)))
modify_xml(h, xml_root) == XmlEdits(deepcopy(h, xml_root))

\* prettify_xml(elem)
prettify_xml(h, r) == PrettifyTree(DerefXml(h, r))

\* bool(elem): an Element is true when it has children
TruthyXml(h, r) == r # 0 /\ h[r].children # <<>>

-----------------------------------------------------------------------------
(* JSON values and JSON text *)

\* A JSON value: t is its Python type; s the characters of a str (in
\* chunks) or the literal of a number or boolean; items the (key, value)
\* pairs of a dict in insertion order, or the elements of a list (key <<>>)
JVal(t, s, items) == [t |-> t, s |-> s, items |-> items]
JStr(s) == JVal("str", s, <<>>)
JNum(lit) == JVal("num", <<lit>>, <<>>)
JNull == JVal("null", <<>>, <<>>)
JList(vs) == JVal("list", <<>>, [i \in 1..Len(vs) |-> [k |-> <<>>, v |-> vs[i]]])
JDict(kvs) == JVal("dict", <<>>, kvs)
KV(key, v) == [k |-> <<key>>, v |-> v]

Punct(c) == Tok("punct", c)
Quote == Tok("quote", "\"")
Space == Chr(" ")

QuotedStr(s) == <<Quote>> \o Chars(s) \o <<Quote>>

\* json.dumps(obj, indent=indent): indent < 0 stands for indent=None, whose
\* separators are ", " and ": "; with an indent they are "," and ": " and
\* every item starts a line
RECURSIVE DumpJson(_, _, _)
RECURSIVE DumpItem(_, _, _, _)
\* the items of a non-empty container, and the line break before its
\* closing bracket
DumpItems(v, pretty, level) ==
    Flatten([i \in 1..Len(v.items) |-> DumpItem(v, pretty, level, i)])
    \o (IF pretty THEN <<NL>> \o Indent(level) ELSE <<>>)
DumpJson(v, pretty, level) ==
    CASE v.t = "str" -> QuotedStr(v.s)
      [] v.t = "num" -> <<Tok("num", v.s[1])>>
      [] v.t = "bool" -> <<Tok("lit", v.s[1])>>
      [] v.t = "null" -> <<Tok("lit", "null")>>
      [] v.t = "list" ->
           IF v.items = <<>> THEN <<Punct("["), Punct("]")>>
           ELSE <<Punct("[")>> \o DumpItems(v, pretty, level) \o <<Punct("]")>>
      [] v.t = "dict" ->
           IF v.items = <<>> THEN <<Punct("{"), Punct("}")>>
           ELSE <<Punct("{")>> \o DumpItems(v, pretty, level) \o <<Punct("}")>>
DumpItem(v, pretty, level, i) ==
    (IF pretty THEN <<NL>> \o Indent(level + 1) ELSE <<>>)
    \o (IF v.t = "dict" THEN QuotedStr(v.items[i].k) \o <<Punct(":"), Space>> ELSE <<>>)
    \o DumpJson(v.items[i].v, pretty, level + 1)
    \o (IF i < Len(v.items)
        THEN <<Punct(",")>> \o (IF pretty THEN <<>> ELSE <<Space>>)
        ELSE <<>>)

json_dumps(v) == DumpJson(v, FALSE, 0)
json_dumps_indent2(v) == DumpJson(v, TRUE, 0)

\* dict[key] = value: an existing key keeps its place
SetPair(items, key, v) ==
    IF \E i \in 1..Len(items) : items[i].k = key
    THEN [i \in 1..Len(items) |-> IF items[i].k = key THEN [k |-> key, v |-> v] ELSE items[i]]
    ELSE Append(items, [k |-> key, v |-> v])

HasKey(items, key) == \E i \in 1..Len(items) : items[i].k = key

DelKey(items, key) == SelectSeq(items, LAMBDA it : it.k # key)

RECURSIVE SkipWs(_, _)
SkipWs(toks, i) == IF i <= Len(toks) /\ IsSpace(toks[i]) THEN SkipWs(toks, i + 1) ELSE i

JFail == [ok |-> FALSE, v |-> JNull, next |-> 0]
JOk(v, next) == [ok |-> TRUE, v |-> v, next |-> next]
At(toks, i, t) == i <= Len(toks) /\ toks[i] = t

\* the characters of a string literal, from the token after the opening quote
RECURSIVE ScanString(_, _, _)
ScanString(toks, i, acc) ==
    IF i > Len(toks) THEN [ok |-> FALSE, s |-> acc, next |-> 0]
    ELSE IF toks[i] = Quote THEN [ok |-> TRUE, s |-> acc, next |-> i + 1]
    ELSE IF toks[i].k = "chr" /\ toks[i].v # "\n"
    THEN ScanString(toks, i + 1, Append(acc, toks[i].v))
    ELSE [ok |-> FALSE, s |-> acc, next |-> 0]

StrResult(r) == IF r.ok THEN JOk(JStr(r.s), r.next) ELSE JFail

\* json.JSONDecoder: one value starting at token i (white space skipped by
\* the caller): [ok, v, next]
RECURSIVE ParseJson(_, _)
RECURSIVE ParseMembers(_, _, _, _)
\* after one member's value: "," and the next member, or the closing bracket
AfterValue(toks, t, acc, key, val, after) ==
    IF ~val.ok THEN JFail
    ELSE IF At(toks, after, Punct(IF t = "dict" THEN "}" ELSE "]"))
    THEN JOk(JVal(t, <<>>, IF t = "dict" THEN SetPair(acc, key, val.v)
                           ELSE Append(acc, [k |-> <<>>, v |-> val.v])), after + 1)
    ELSE IF At(toks, after, Punct(","))
    THEN ParseMembers(toks, SkipWs(toks, after + 1), t,
                      IF t = "dict" THEN SetPair(acc, key, val.v)
                      ELSE Append(acc, [k |-> <<>>, v |-> val.v]))
    ELSE JFail
ValueAt(toks, t, acc, key, val) ==
    AfterValue(toks, t, acc, key, val, IF val.ok THEN SkipWs(toks, val.next) ELSE 0)
AfterKey(toks, acc, key, colon) ==
    IF ~key.ok \/ ~At(toks, colon, Punct(":")) THEN JFail
    ELSE ValueAt(toks, "dict", acc, key.s, ParseJson(toks, SkipWs(toks, colon + 1)))
ParseMembers(toks, i, t, acc) ==
    IF t = "list" THEN ValueAt(toks, t, acc, <<>>, ParseJson(toks, i))
    ELSE IF ~At(toks, i, Quote) THEN JFail
    ELSE AfterKey(toks, acc, ScanString(toks, i + 1, <<>>),
                  IF ScanString(toks, i + 1, <<>>).ok
                  THEN SkipWs(toks, ScanString(toks, i + 1, <<>>).next) ELSE 0)
Container(toks, j, t) ==
    IF At(toks, j, Punct(IF t = "dict" THEN "}" ELSE "]"))
    THEN JOk(JVal(t, <<>>, <<>>), j + 1)
    ELSE ParseMembers(toks, j, t, <<>>)
ParseJson(toks, i) ==
    IF i > Len(toks) THEN JFail
    ELSE CASE toks[i] = Quote -> StrResult(ScanString(toks, i + 1, <<>>))
           [] toks[i].k = "num" -> JOk(JNum(toks[i].v), i + 1)
           [] toks[i].k = "lit" ->
                IF toks[i].v = "null" THEN JOk(JNull, i + 1)
                ELSE JOk(JVal("bool", <<toks[i].v>>, <<>>), i + 1)
           [] toks[i] = Punct("[") -> Container(toks, SkipWs(toks, i + 1), "list")
           [] toks[i] = Punct("{") -> Container(toks, SkipWs(toks, i + 1), "dict")
           [] OTHER -> JFail

\* the whole text is one value: trailing white space only
Whole(toks, r) ==
    IF r.ok /\ SkipWs(toks, r.next) = Len(toks) + 1
    THEN [ok |-> TRUE, v |-> r.v] ELSE [ok |-> FALSE, v |-> JNull]

\* json.loads(s): not ok stands for json.JSONDecodeError
json_loads(toks) == Whole(toks, ParseJson(toks, SkipWs(toks, 1)))

-----------------------------------------------------------------------------
(* The heap of JSON objects *)

\* a value and the values inside it, a container before what it holds
RECURSIVE JsonNodes(_)
JsonNodes(v) == <<v>> \o Flatten([i \in 1..Len(v.items) |-> JsonNodes(v.items[i].v)])

\* The objects of a value are built in that order, the object of the value
\* itself first.  ItemRef: the reference of the i-th item of v when the
\* object of v is at reference r.
ItemRef(v, r, i) == r + 1 + Len(Flatten([j \in 1..(i - 1) |-> JsonNodes(v.items[j].v)]))
RECURSIVE JsonObjs(_, _)
JsonObjs(v, r) ==
    <<JVal(v.t, v.s, [i \in 1..Len(v.items) |-> [k |-> v.items[i].k, v |-> ItemRef(v, r, i)]])>>
    \o Flatten([i \in 1..Len(v.items) |-> JsonObjs(v.items[i].v, ItemRef(v, r, i))])

\* Build the objects of a value behind the ones of heap h: [h, r]
AllocJson(h, v) == [h |-> h \o JsonObjs(v, Len(h) + 1), r |-> Len(h) + 1]

RECURSIVE DerefJson(_, _)
DerefJson(h, r) ==
    JVal(h[r].t, h[r].s,
         [i \in 1..Len(h[r].items) |-> [k |-> h[r].items[i].k, v |-> DerefJson(h, h[r].items[i].v)]])

RECURSIVE ReachJson(_, _)
ReachJson(h, r) ==
    IF r = 0 THEN {}
    ELSE {r} \cup UNION {ReachJson(h, h[r].items[i].v) : i \in 1..Len(h[r].items)}

\* dict[key]
GetItem(h, d, key) ==
    h[d].items[CHOOSE i \in 1..Len(h[d].items) : h[d].items[i].k = key].v

\* str in str: s occurs in t as a run of consecutive characters
Substring(s, t) ==
    \E i \in 0..(Len(t) - Len(s)) : SubSeq(t, i + 1, i + Len(s)) = s

UserQuery ==
    <<"Display Hunter Dickinson's jump shots under guard from the second half of the last game, last season, and previous season">>
OffensivePlayer == <<"offensive_player">>

\* "offensive_player" in container (line 58): [raised, found]
Contains(h, c) ==
    CASE h[c].t = "dict" -> [raised |-> FALSE, found |-> HasKey(h[c].items, OffensivePlayer)]
      [] h[c].t = "list" ->
           [raised |-> FALSE,
            found |-> \E i \in 1..Len(h[c].items) :
                          LET e == h[h[c].items[i].v]
                          IN e.t = "str" /\ e.s = OffensivePlayer]
      [] h[c].t = "str" -> [raised |-> FALSE, found |-> Substring(OffensivePlayer, h[c].s)]
      [] OTHER -> [raised |-> TRUE, found |-> FALSE]

\* dict[key] = "literal": a new str object, bound under the key
SetStr(h, d, key, lit) ==
    [Append(h, JStr(lit)) EXCEPT ![d].items = SetPair(@, key, Len(h) + 1)]

\* lines 58-59 for a record that has "parameters", c being the result of
\* the membership test: [h, raised]
DelOffensivePlayer(h, params, c) ==
    IF c.raised THEN [h |-> h, raised |-> TRUE]
    ELSE IF ~c.found THEN [h |-> h, raised |-> FALSE]
    \* del item["parameters"]["offensive_player"]
    ELSE IF h[params].t = "dict"
    THEN [h |-> [h EXCEPT ![params].items = DelKey(@, OffensivePlayer)], raised |-> FALSE]
    ELSE [h |-> h, raised |-> TRUE]

WithParameters(h, params) == DelOffensivePlayer(h, params, Contains(h, params))

\* lines 58-59
CheckParameters(h, item) ==
    IF ~HasKey(h[item].items, <<"parameters">>) THEN [h |-> h, raised |-> FALSE]
    ELSE WithParameters(h, GetItem(h, item, <<"parameters">>))

\* lines 54-59, the loop body for one dict item: [h, raised]
ModifyRecord(h, item) ==
    CheckParameters(SetStr(SetStr(h, item, <<"user_query">>, UserQuery),
                           item, <<"new">>, <<"Something">>), item)

\* lines 52-59: for item in modified_data
RECURSIVE ModifyRecords(_, _, _)
Continue(m, lst, i) == IF m.raised THEN m ELSE ModifyRecords(m.h, lst, i)
ModifyRecords(h, lst, i) ==
    IF i > Len(h[lst].items) THEN [h |-> h, raised |-> FALSE]
    ELSE IF h[h[lst].items[i].v].t # "dict" THEN ModifyRecords(h, lst, i + 1)
    ELSE Continue(ModifyRecord(h, h[lst].items[i].v), lst, i + 1)

\* lines 61-63
ModifyObject(h, d) ==
    [SetStr(h, d, <<"new_field">>, <<"This is a new value">>)
        EXCEPT ![d].items = DelKey(@, <<"to_delete">>)]

\* line 49: modified_data = json.loads(json.dumps(json_data))
json_copy(h, r) == AllocJson(h, json_loads(json_dumps(DerefJson(h, r))).v)

Returned(m, r) == [h |-> m.h, r |-> IF m.raised THEN 0 ELSE r, raised |-> m.raised]

\* lines 51-65 on the copy c = [h, r]
ModifyCopy(c) ==
    IF c.h[c.r].t = "list" THEN Returned(ModifyRecords(c.h, c.r, 1), c.r)
    ELSE IF c.h[c.r].t = "dict"
    THEN [h |-> ModifyObject(c.h, c.r), r |-> c.r, raised |-> FALSE]
    ELSE [h |-> c.h, r |-> c.r, raised |-> FALSE]

\* modify_json(json_data): [h, r, raised]; raised stands for the TypeError
\* of line 58 or 59, which leaves modify_json without a return value
modify_json(h, json_data) ==
    IF json_data = 0 THEN [h |-> h, r |-> 0, raised |-> FALSE]
    ELSE ModifyCopy(json_copy(h, json_data))

\* bool(value) of a JSON value
TruthyJson(h, r) ==
    /\ r # 0
    /\ CASE h[r].t \in {"dict", "list"} -> h[r].items # <<>>
         [] h[r].t = "str" -> h[r].s # <<>>
         [] h[r].t = "num" -> h[r].s # <<"0">>
         [] h[r].t = "bool" -> h[r].s = <<"true">>
         [] OTHER -> FALSE

-----------------------------------------------------------------------------
(* difflib: SequenceMatcher and Differ, as used by generate_diff.  Ranges  *)
(* are Python's: a[alo:ahi] is a[alo+1..ahi] here.  No junk is configured; *)
(* the autojunk heuristic needs 200 elements and is out of the bounds.     *)

\* length of the common run of a[i+1..ahi] and b[j+1..bhi]
CommonRun(a, i, ahi, b, j, bhi) ==
    LET room == IF ahi - i < bhi - j THEN ahi - i ELSE bhi - j
    IN CHOOSE k \in 0..room :
           /\ k < room => a[i + k + 1] # b[j + k + 1]
           /\ \A d \in 1..k : a[i + d] = b[j + d]

\* the blocks with the best of which find_longest_match answers: the
\* longest, of those the one starting earliest in a, of those the one
\* starting earliest in b
LongestFirst(blocks) ==
    CHOOSE c \in blocks : \A d \in blocks :
        \/ c.k > d.k
        \/ c.k = d.k /\ c.i < d.i
        \/ c.k = d.k /\ c.i = d.i /\ c.j <= d.j

\* SequenceMatcher.find_longest_match
find_longest_match(a, alo, ahi, b, blo, bhi) ==
    IF \E i \in alo..(ahi - 1), j \in blo..(bhi - 1) : a[i + 1] = b[j + 1]
    THEN LongestFirst({[i |-> c[1], j |-> c[2], k |-> CommonRun(a, c[1], ahi, b, c[2], bhi)]
                       : c \in (alo..(ahi - 1)) \X (blo..(bhi - 1))})
    ELSE [i |-> alo, j |-> blo, k |-> 0]

Op(tag, i1, i2, j1, j2) == [tag |-> tag, i1 |-> i1, i2 |-> i2, j1 |-> j1, j2 |-> j2]

\* SequenceMatcher.get_opcodes over a[alo:ahi], b[blo:bhi]: the matching
\* blocks found by splitting at the longest match m, and the gaps between them
RECURSIVE get_opcodes(_, _, _, _, _, _)
SplitAtMatch(a, alo, ahi, b, blo, bhi, m) ==
    IF m.k = 0
    THEN IF alo < ahi /\ blo < bhi THEN <<Op("replace", alo, ahi, blo, bhi)>>
         ELSE IF alo < ahi THEN <<Op("delete", alo, ahi, blo, bhi)>>
         ELSE IF blo < bhi THEN <<Op("insert", alo, ahi, blo, bhi)>>
         ELSE <<>>
    ELSE get_opcodes(a, alo, m.i, b, blo, m.j)
         \o <<Op("equal", m.i, m.i + m.k, m.j, m.j + m.k)>>
         \o get_opcodes(a, m.i + m.k, ahi, b, m.j + m.k, bhi)
get_opcodes(a, alo, ahi, b, blo, bhi) ==
    SplitAtMatch(a, alo, ahi, b, blo, bhi, find_longest_match(a, alo, ahi, b, blo, bhi))

Opcodes(a, b) == get_opcodes(a, 0, Len(a), b, 0, Len(b))

\* number of matched elements: the sum of the sizes of the matching blocks
RECURSIVE Matches(_)
Matches(ops) ==
    IF ops = <<>> THEN 0
    ELSE (IF Head(ops).tag = "equal" THEN Head(ops).i2 - Head(ops).i1 ELSE 0)
         + Matches(Tail(ops))

\* SequenceMatcher.ratio() = 2.0 * M / T, kept as the fraction [n, d]
Ratio(a, b) == [n |-> 2 * Matches(Opcodes(a, b)), d |-> Len(a) + Len(b)]
Greater(r, s) == r.n * s.d > s.n * r.d

Marked(tag, line) == <<Chr(tag), Space>> \o line

\* Differ._dump(tag, x, lo, hi)
Dump(tag, x, lo, hi) == [i \in 1..(hi - lo) |-> Marked(tag, x[lo + i])]

\* Differ._plain_replace
plain_replace(a, alo, ahi, b, blo, bhi) ==
    IF bhi - blo < ahi - alo
    THEN Dump("+", b, blo, bhi) \o Dump("-", a, alo, ahi)
    ELSE Dump("-", a, alo, ahi) \o Dump("+", b, blo, bhi)

NoPair ==
    [best_ratio |-> [n |-> 74, d |-> 100], best_i |-> -1, best_j |-> -1,
     eqi |-> -1, eqj |-> -1]

\* the double loop of _fancy_replace (for j: for i:), its visits numbered
\* from 0: the first visit of two equal lines, and among the visits of
\* unequal lines the first one with the highest ratio above best_ratio
PairAt(alo, ahi, blo, p) ==
    [i |-> alo + (p % (ahi - alo)), j |-> blo + (p \div (ahi - alo))]
BestPair(a, alo, ahi, b, blo, bhi) ==
    LET visits == 0..((ahi - alo) * (bhi - blo) - 1)
        ai(p) == a[PairAt(alo, ahi, blo, p).i + 1]
        bj(p) == b[PairAt(alo, ahi, blo, p).j + 1]
        equal == {p \in visits : ai(p) = bj(p)}
        close == {p \in visits \ equal : Greater(Ratio(ai(p), bj(p)), NoPair.best_ratio)}
        first == CHOOSE p \in equal : \A q \in equal : p <= q
        best == CHOOSE p \in close : \A q \in close :
                    \/ Greater(Ratio(ai(p), bj(p)), Ratio(ai(q), bj(q)))
                    \/ ~Greater(Ratio(ai(q), bj(q)), Ratio(ai(p), bj(p))) /\ p <= q
    IN [best_ratio |-> IF close = {} THEN NoPair.best_ratio ELSE Ratio(ai(best), bj(best)),
        best_i |-> IF close = {} THEN -1 ELSE PairAt(alo, ahi, blo, best).i,
        best_j |-> IF close = {} THEN -1 ELSE PairAt(alo, ahi, blo, best).j,
        eqi |-> IF equal = {} THEN -1 ELSE PairAt(alo, ahi, blo, first).i,
        eqj |-> IF equal = {} THEN -1 ELSE PairAt(alo, ahi, blo, first).j]

\* the "?" guide of one side: "^" replaced, "-" deleted, "+" inserted, blank
\* for equal characters (white space kept as it is), then rstrip()
RECURSIVE OpTags(_, _, _)
OpTags(line, ops, side) ==
    IF ops = <<>> THEN <<>>
    ELSE LET o == Head(ops)
             lo == IF side = "a" THEN o.i1 ELSE o.j1
             hi == IF side = "a" THEN o.i2 ELSE o.j2
             mark == CASE o.tag = "replace" -> "^"
                       [] o.tag = "delete" -> "-"
                       [] o.tag = "insert" -> "+"
                       [] OTHER -> " "
         IN [n \in 1..(hi - lo) |->
                IF mark = " " /\ IsSpace(line[lo + n]) THEN line[lo + n] ELSE Chr(mark)]
            \o OpTags(line, Tail(ops), side)

Hint(tags) == <<Chr("?"), Space>> \o tags \o <<NL>>

\* Differ._qformat
Quad(aline, bline, atags, btags) ==
    <<Marked("-", aline)>> \o (IF atags # <<>> THEN <<Hint(atags)>> ELSE <<>>)
    \o <<Marked("+", bline)>> \o (IF btags # <<>> THEN <<Hint(btags)>> ELSE <<>>)
GuidedBy(aline, bline, ops) ==
    Quad(aline, bline, RStrip(OpTags(aline, ops, "a")), RStrip(OpTags(bline, ops, "b")))
qformat(aline, bline) == GuidedBy(aline, bline, Opcodes(aline, bline))

BelowCutoff(found) == Greater([n |-> 75, d |-> 100], found.best_ratio)

\* Differ._fancy_replace and Differ._fancy_helper
RECURSIVE fancy_replace(_, _, _, _, _, _)
fancy_helper(a, alo, ahi, b, blo, bhi) ==
    IF alo < ahi
    THEN IF blo < bhi THEN fancy_replace(a, alo, ahi, b, blo, bhi)
         ELSE Dump("-", a, alo, ahi)
    ELSE IF blo < bhi THEN Dump("+", b, blo, bhi)
    ELSE <<>>
\* the synch point (bi, bj): what precedes it, the pair itself, what follows
AroundPair(a, alo, ahi, b, blo, bhi, bi, bj, identical) ==
    fancy_helper(a, alo, bi, b, blo, bj)
    \o (IF identical THEN <<Marked(" ", a[bi + 1])>> ELSE qformat(a[bi + 1], b[bj + 1]))
    \o fancy_helper(a, bi + 1, ahi, b, bj + 1, bhi)
WithPair(a, alo, ahi, b, blo, bhi, found) ==
    IF BelowCutoff(found)
    THEN IF found.eqi < 0 THEN plain_replace(a, alo, ahi, b, blo, bhi)
         ELSE AroundPair(a, alo, ahi, b, blo, bhi, found.eqi, found.eqj, TRUE)
    ELSE AroundPair(a, alo, ahi, b, blo, bhi, found.best_i, found.best_j, FALSE)
fancy_replace(a, alo, ahi, b, blo, bhi) ==
    WithPair(a, alo, ahi, b, blo, bhi, BestPair(a, alo, ahi, b, blo, bhi))

\* the lines one opcode contributes to Differ.compare
CompareOp(a, b, o) ==
    CASE o.tag = "replace" -> fancy_replace(a, o.i1, o.i2, b, o.j1, o.j2)
      [] o.tag = "delete" -> Dump("-", a, o.i1, o.i2)
      [] o.tag = "insert" -> Dump("+", b, o.j1, o.j2)
      [] o.tag = "equal" -> Dump(" ", a, o.i1, o.i2)

CompareOps(a, b, ops) == Flatten([n \in 1..Len(ops) |-> CompareOp(a, b, ops[n])])

\* a comparison that finds nothing in common: all of a removed, all of b added
AllReplaced(a, b) == Dump("-", a, 0, Len(a)) \o Dump("+", b, 0, Len(b))

\* list(Differ().compare(a, b))
Differ_compare(a, b) == CompareOps(a, b, Opcodes(a, b))

-----------------------------------------------------------------------------
(* The functions of src/main.py *)

StartsWithAny(toks, firsts) == toks # <<>> /\ toks[1] \in firsts

\* text that starts with "<": a declaration, a tag, or the bare character
LooksLikeXml(toks) == toks # <<>> /\ (IsMarkup(toks[1]) \/ toks[1] = Chr("<"))

\* a detector whose XML branch looks at the first character only
DetectByFirstCharacter(text) ==
    IF StartsWithAny(Strip(text), {Punct("{"), Punct("[")}) /\ json_loads(Strip(text)).ok
    THEN "json"
    ELSE IF LooksLikeXml(Strip(text)) THEN "xml"
    ELSE "ValueError"

\* detect_file_type(content): "json", "xml", or "ValueError" when it raises
detect_file_type(text) ==
    LET stripped == Strip(text)
    IN IF StartsWithAny(stripped, {Punct("{"), Punct("[")}) /\ json_loads(stripped).ok
       THEN "json"
       ELSE IF LooksLikeXml(stripped) /\ ET_fromstring(stripped).ok
       THEN "xml"
       ELSE "ValueError"

NotLoaded ==
    [raised |-> "", file_type |-> "", json |-> JNull,
     xml |-> Element("", <<>>, <<>>, <<>>, <<>>)]

\* line 38: return json.loads(content), file_type
LoadedJson(p) ==
    IF p.ok THEN [NotLoaded EXCEPT !.file_type = "json", !.json = p.v]
    ELSE [NotLoaded EXCEPT !.raised = "ValueError"]

\* line 40: return ET.fromstring(content), file_type
LoadedXml(p) ==
    IF p.ok THEN [NotLoaded EXCEPT !.file_type = "xml", !.xml = p.elem]
    ELSE [NotLoaded EXCEPT !.raised = "ParseError"]

\* load_file(uploaded_file) from line 37 on, file_type being what
\* detect_file_type returned at line 35: [raised, file_type, json, xml];
\* raised is "" or the exception that leaves load_file; the second parse
\* (lines 38, 40) reads the text as uploaded, not the stripped text
load_file(text, file_type_) ==
    IF file_type_ = "json" THEN LoadedJson(json_loads(text))
    ELSE LoadedXml(ET_fromstring(text))

\* bool(document)
Truthy(h, r, ft) == IF ft = "json" THEN TruthyJson(h, r) ELSE TruthyXml(h, r)

\* the pretty-printed text both generate_diff and get_file_download_info use
PrettyText(h, r, ft) ==
    IF ft = "json" THEN json_dumps_indent2(DerefJson(h, r)) ELSE prettify_xml(h, r)

\* a diff that returns early for None only, not for every falsy document
DiffUnlessNone(h, original, modified, ft) ==
    IF original = 0 \/ modified = 0 THEN <<>>
    ELSE Differ_compare(SplitLines(PrettyText(h, original, ft)),
                        SplitLines(PrettyText(h, modified, ft)))

\* generate_diff(original, modified, file_type)
generate_diff(h, original, modified, ft) ==
    IF ~Truthy(h, original, ft) \/ ~Truthy(h, modified, ft) THEN <<>>
    ELSE Differ_compare(SplitLines(PrettyText(h, original, ft)),
                        SplitLines(PrettyText(h, modified, ft)))

LineStartsWith(line, c) == line # <<>> /\ line[1] = Chr(c)

Div(style, line) == <<Tok("div", style)>> \o line \o <<Tok("/div", "")>>

\* a renderer without the branch of lines 121-122
KeepLine(line) ==
    IF LineStartsWith(line, "+") THEN Div("background-color: #a8ffa8", line)
    ELSE IF LineStartsWith(line, "-") THEN Div("background-color: #ffb3b3", line)
    ELSE Div("", line)
FormatKeepingHints(lines) == Flatten([i \in 1..Len(lines) |-> KeepLine(lines[i])])

\* lines 117-125: what one line adds to html_lines
FormatLine(line) ==
    IF LineStartsWith(line, "+") THEN <<Div("background-color: #a8ffa8", line)>>
    ELSE IF LineStartsWith(line, "-") THEN <<Div("background-color: #ffb3b3", line)>>
    ELSE IF LineStartsWith(line, "?") THEN <<>>
    ELSE <<Div("", line)>>

\* format_diff_html(diff_lines)
format_diff_html(lines) ==
    Flatten(Flatten([i \in 1..Len(lines) |-> FormatLine(lines[i])]))

\* get_file_download_info(data, file_type)
get_file_download_info(h, data, ft) ==
    IF ft = "json"
    THEN [content |-> json_dumps_indent2(IF data = 0 THEN JNull ELSE DerefJson(h, data)),
          mime |-> "application/json", extension |-> "json"]
    ELSE [content |-> prettify_xml(h, data), mime |-> "application/xml", extension |-> "xml"]

-----------------------------------------------------------------------------
(* The uploaded documents explored *)

Tags == {"root", "parameters", "team_name", "shot_type"}

\* the element trees with exactly n elements, without text
RECURSIVE XmlTrees(_)
RECURSIVE XmlForests(_)
XmlTrees(n) ==
    IF n < 1 THEN {}
    ELSE {Element(t, <<>>, <<>>, <<>>, f) : t \in Tags, f \in XmlForests(n - 1)}
XmlForests(m) ==
    IF m = 0 THEN {<<>>}
    ELSE UNION {{<<t>> \o f : t \in XmlTrees(k), f \in XmlForests(m - k)} : k \in 1..m}

\* how character data is spread over a tree
Styles == {"bare", "text", "mixed", "indented", "multiline", "attr"}

RECURSIVE Decorate(_, _, _)
Decorate(e, style, isRoot) ==
    LET leaf == e.children = <<>>
        kids == [i \in 1..Len(e.children) |-> Decorate(e.children[i], style, FALSE)]
        text == CASE style = "text" /\ leaf -> <<"t">>
                  [] style = "attr" /\ leaf -> <<"t">>
                  [] style = "mixed" -> <<"t">>
                  [] style = "indented" /\ ~leaf -> <<"\n", "  ">>
                  [] style = "multiline" /\ leaf -> <<"l", "\n", "+", "m">>
                  [] OTHER -> <<>>
        tail == CASE style = "mixed" /\ ~isRoot -> <<"u">>
                  [] style = "indented" /\ ~isRoot -> <<"\n">>
                  [] OTHER -> <<>>
        attrib == IF style = "attr" THEN << <<"k", "v">> >> ELSE <<>>
    IN Element(e.tag, attrib, text, tail, kids)

\* trees of more than three elements are explored bare and with mixed
\* content only
StylesOf(n) == IF n <= 3 THEN Styles ELSE {"bare", "mixed"}

XmlDocsOf(n) == {Decorate(e, st, TRUE) : e \in XmlTrees(n), st \in StylesOf(n)}
XmlDocs == UNION {XmlDocsOf(n) : n \in 1..MaxNodes}

\* values met under the key "parameters"
ParamValues ==
    { JDict(<<>>),
      JDict(<<KV("offensive_player", JStr(<<"X">>))>>),
      JDict(<<KV("offensive_player", JStr(<<"X">>)), KV("k", JNum("1"))>>),
      JList(<<>>),
      JList(<<JStr(<<"a">>)>>),
      JList(<<JStr(OffensivePlayer)>>),
      JStr(<<"abc">>),
      JStr(<<"xx ", "offensive_player">>),
      JNum("5"),
      JVal("bool", <<"true">>, <<>>),
      JNull }

JsonRecords ==
    {JDict(<<>>), JDict(<<KV("user_query", JStr(<<"old">>)), KV("new", JNum("1"))>>)}
    \cup {JDict(<<KV("parameters", pv)>>) : pv \in ParamValues}

JsonElements == JsonRecords \cup {JNum("3"), JList(<<JNum("0")>>)}

RECURSIVE SeqsUpTo(_, _)
SeqsUpTo(S, n) ==
    IF n = 0 THEN {<<>>}
    ELSE SeqsUpTo(S, n - 1)
         \cup {Append(q, x) : q \in {r \in SeqsUpTo(S, n - 1) : Len(r) = n - 1}, x \in S}

JsonLists == {JList(q) : q \in SeqsUpTo(JsonElements, MaxLen)}

JsonObjects ==
    { JDict(<<>>),
      JDict(<<KV("a", JNum("1"))>>),
      JDict(<<KV("to_delete", JNum("2"))>>),
      JDict(<<KV("a", JNum("1")), KV("to_delete", JNum("2"))>>),
      JDict(<<KV("to_delete", JNum("2")), KV("a", JNum("1"))>>),
      JDict(<<KV("new_field", JStr(<<"old">>)), KV("a", JList(<<JNum("1"), JNull>>))>>),
      JDict(<<KV("parameters", JDict(<<KV("offensive_player", JStr(<<"X">>))>>))>>) }

JsonDocs == JsonLists \cup JsonObjects

\* The texts uploaded: every document in its compact form; the smallest ones
\* also pretty-printed, behind a declaration, behind white space, cut short,
\* followed by junk; and texts that are neither format.
Forms(toks) ==
    { toks, <<Space, NL>> \o toks \o <<NL>>, SubSeq(toks, 1, Len(toks) - 1),
      toks \o <<Chr("x")>> }

XmlTexts ==
    {SerializeXml(d) : d \in XmlDocs}
    \cup UNION {Forms(SerializeXml(d)) \cup Forms(ET_tostring(d)) \cup {PrettifyTree(d)}
                : d \in XmlDocsOf(1)}

JsonTexts ==
    {json_dumps(d) : d \in JsonDocs}
    \cup UNION {Forms(json_dumps(d)) \cup {json_dumps_indent2(d)}
                : d \in JsonObjects \cup {JList(<<>>), JList(<<JNum("3")>>)}}

OtherTexts ==
    { <<>>, <<Space>>, Chars(<<"not json or xml">>), <<Tok("num", "5")>>,
      QuotedStr(<<"x">>), <<Chr("<"), Chr("a")>>, <<Tok("close", "root")>>,
      <<Punct("{"), Chr("<")>>, <<Punct("["), TagTok("empty", "root", <<>>), Punct("]")>> }

Texts == XmlTexts \cup JsonTexts \cup OtherTexts

-----------------------------------------------------------------------------
(* main(): one script run, element by element *)

Widget(w, text, data, file_name, mime) ==
    [w |-> w, text |-> text, data |-> data, file_name |-> file_name, mime |-> mime]

Upper(ft) == IF ft = "json" THEN "JSON" ELSE "XML"

UnsupportedFormat == "Unsupported file format. Please upload a valid JSON or XML file."

PageTop ==
    << Widget("title", "File Diff Viewer", <<>>, "", ""),
       Widget("file_uploader", "Upload JSON or XML file", <<>>, "", "") >>

Init ==
    /\ pc = "idle"
    /\ content = <<>>
    /\ heap = <<>>
    /\ original_data = 0
    /\ file_type = ""
    /\ modified_data = 0
    /\ loaded = <<>>
    /\ diff_lines = <<>>
    /\ page = <<>>

\* lines 145-150 with no file in the uploader: the run ends
NoFile ==
    /\ pc = "idle"
    /\ pc' = "no_file"
    /\ page' = PageTop
    /\ UNCHANGED <<content, heap, original_data, file_type, modified_data, loaded,
                   diff_lines>>

\* lines 145-150 and line 34: a file is in the uploader and is read
Upload ==
    /\ pc = "idle"
    /\ \E text \in Texts : content' = text
    /\ pc' = "uploaded"
    /\ page' = PageTop
    /\ UNCHANGED <<heap, original_data, file_type, modified_data, loaded, diff_lines>>

\* line 153 entering load_file, line 35: detect_file_type returns the format
\* or raises the ValueError caught at line 181
AfterDetect(ft) ==
    IF ft = "ValueError"
    THEN /\ pc' = "end"
         /\ page' = Append(page, Widget("error", UnsupportedFormat, <<>>, "", ""))
         /\ UNCHANGED file_type
    ELSE /\ pc' = "detected"
         /\ file_type' = ft
         /\ UNCHANGED page

DetectType ==
    /\ pc = "uploaded"
    /\ AfterDetect(detect_file_type(content))
    /\ UNCHANGED <<content, heap, original_data, modified_data, loaded, diff_lines>>

\* line 153 for the result r of load_file
Loaded(r, a) ==
    /\ pc' = "loaded"
    /\ heap' = a.h
    /\ original_data' = a.r
    /\ loaded' = <<IF r.file_type = "json" THEN r.json ELSE r.xml>>
AfterLoad(r) ==
    IF r.raised # ""
    THEN pc' = "crashed" /\ UNCHANGED <<heap, original_data, loaded>>
    ELSE Loaded(r, IF r.file_type = "json" THEN AllocJson(heap, r.json)
                   ELSE AllocXml(heap, r.xml))

\* lines 37-40 and the return to line 153; an ET.ParseError is not a
\* ValueError and leaves main
LoadFile ==
    /\ pc = "detected"
    /\ AfterLoad(load_file(content, file_type))
    /\ UNCHANGED <<content, file_type, modified_data, diff_lines, page>>

\* lines 155-157
ShowInfo ==
    /\ pc = "loaded"
    /\ original_data # 0
    /\ pc' = "info"
    /\ page' = Append(page, Widget("info", Upper(file_type), <<>>, "", ""))
    /\ UNCHANGED <<content, heap, original_data, file_type, modified_data, loaded,
                   diff_lines>>

Copied(c) == heap' = c.h /\ modified_data' = c.r

\* lines 160-163 entering the transformer: line 49 of modify_json, line 71
\* of modify_xml; modified_data holds the copy from here on
CopyDocument ==
    /\ pc = "info"
    /\ pc' = "copied"
    /\ IF file_type = "json" THEN Copied(json_copy(heap, original_data))
       ELSE Copied(deepcopy(heap, original_data))
    /\ UNCHANGED <<content, original_data, file_type, loaded, diff_lines, page>>

Modified(m, raised) ==
    /\ heap' = m.h
    /\ modified_data' = m.r
    /\ pc' = IF raised THEN "crashed" ELSE "modified"
ModifiedJson(m) == Modified(m, m.raised)

\* lines 51-65 of modify_json, lines 74-87 of modify_xml, and the return to
\* lines 161, 163
Modify ==
    /\ pc = "copied"
    /\ IF file_type = "json"
       THEN ModifiedJson(ModifyCopy([h |-> heap, r |-> modified_data]))
       ELSE Modified(XmlEdits([h |-> heap, r |-> modified_data]), FALSE)
    /\ UNCHANGED <<content, original_data, file_type, loaded, diff_lines, page>>

\* lines 166-167
GenerateDiff ==
    /\ pc = "modified"
    /\ pc' = "diffed"
    /\ page' = Append(page, Widget("subheader", "Differences (Git-style)", <<>>, "", ""))
    /\ diff_lines' = generate_diff(heap, original_data, modified_data, file_type)
    /\ UNCHANGED <<content, heap, original_data, file_type, modified_data, loaded>>

\* lines 168-169
RenderDiff ==
    /\ pc = "diffed"
    /\ pc' = "rendered"
    /\ page' = Append(page, Widget("markdown", "", format_diff_html(diff_lines), "", ""))
    /\ UNCHANGED <<content, heap, original_data, file_type, modified_data, loaded,
                   diff_lines>>

DownloadButton(d) ==
    Widget("download_button", Upper(file_type), d.content, d.extension, d.mime)

\* lines 172-180; prettify_xml(None) raises
OfferDownload ==
    /\ pc = "rendered"
    /\ IF file_type = "xml" /\ modified_data = 0
       THEN pc' = "crashed" /\ UNCHANGED page
       ELSE /\ pc' = "end"
            /\ page' = Append(page, DownloadButton(
                           get_file_download_info(heap, modified_data, file_type)))
    /\ UNCHANGED <<content, heap, original_data, file_type, modified_data, loaded,
                   diff_lines>>

\* the next script run starts from nothing
Rerun ==
    /\ pc \in {"no_file", "end", "crashed"}
    /\ pc' = "idle"
    /\ content' = <<>>
    /\ heap' = <<>>
    /\ original_data' = 0
    /\ file_type' = ""
    /\ modified_data' = 0
    /\ loaded' = <<>>
    /\ diff_lines' = <<>>
    /\ page' = <<>>

Next ==
    \/ NoFile
    \/ Upload
    \/ DetectType
    \/ LoadFile
    \/ ShowInfo
    \/ CopyDocument
    \/ Modify
    \/ GenerateDiff
    \/ RenderDiff
    \/ OfferDownload
    \/ Rerun

Spec == Init /\ [][Next]_vars

-----------------------------------------------------------------------------
(* generate_diff, format_diff_html and get_file_download_info called with any
   two documents of one format: lines 166-180 from any original_data and
   modified_data *)

\* documents small enough to pair each with each
XmlPairDocs == XmlDocsOf(1) \cup {d \in XmlDocsOf(2) : d.tag = "root"}
JsonPairDocs ==
    JsonObjects \cup {JList(<<>>), JList(<<JNum("3")>>), JList(<<JDict(<<>>)>>)}

Call(ft, h, original, modified) ==
    [ft |-> ft, h |-> h, original |-> original, modified |-> modified]
Paired(ft, original, y) == Call(ft, y.h, original, y.r)

\* a document and itself, a document and None, a document and its
\* transformation, a document and another one
XmlSelf(x) == Call("xml", x.h, x.r, x.r)
XmlAlone(x) == {Call("xml", x.h, x.r, 0), Call("xml", x.h, 0, x.r)}
XmlModified(x) == Paired("xml", x.r, modify_xml(x.h, x.r))
XmlPair(x, b) == Paired("xml", x.r, AllocXml(x.h, b))
JsonSelf(x) == Call("json", x.h, x.r, x.r)
JsonAlone(x) == {Call("json", x.h, x.r, 0), Call("json", x.h, 0, x.r)}
JsonModified(x) == Paired("json", x.r, modify_json(x.h, x.r))
JsonPair(x, b) == Paired("json", x.r, AllocJson(x.h, b))

XmlCalls(docs, pairs) ==
    {XmlSelf(AllocXml(<<>>, d)) : d \in docs}
    \cup {XmlModified(AllocXml(<<>>, d)) : d \in docs}
    \cup UNION {XmlAlone(AllocXml(<<>>, d)) : d \in pairs}
    \cup {XmlPair(AllocXml(<<>>, a), b) : a \in pairs, b \in pairs}

JsonCalls(docs, pairs) ==
    {JsonSelf(AllocJson(<<>>, d)) : d \in docs}
    \cup {JsonModified(AllocJson(<<>>, d)) : d \in docs}
    \cup UNION {JsonAlone(AllocJson(<<>>, d)) : d \in pairs}
    \cup {JsonPair(AllocJson(<<>>, a), b) : a \in pairs, b \in pairs}

DiffCalls(xml, json) == XmlCalls(xml, XmlPairDocs) \cup JsonCalls(json, JsonPairDocs)

DiffInit ==
    /\ pc = "modified"
    /\ content = <<>>
    /\ \E c \in DiffCalls(XmlDocs, JsonDocs) :
          /\ heap = c.h
          /\ original_data = c.original
          /\ file_type = c.ft
          /\ modified_data = c.modified
    /\ loaded = <<>>
    /\ diff_lines = <<>>
    /\ page = <<>>

DiffNext ==
    \/ GenerateDiff
    \/ RenderDiff
    \/ OfferDownload

DiffSpec == DiffInit /\ [][DiffNext]_vars

-----------------------------------------------------------------------------
(* Properties *)

\* the elements of a tree, the element itself first
Below(e) == Range(Tail(Elements(e)))

Document(h, r, ft) == IF ft = "json" THEN DerefJson(h, r) ELSE DerefXml(h, r)

Reach(h, r, ft) == IF ft = "json" THEN ReachJson(h, r) ELSE ReachXml(h, r)

\* the run is past a transformation that returned
Transformed == loaded # <<>> /\ pc \in {"modified", "diffed", "rendered", "end"}

XmlOut == Transformed /\ file_type = "xml"

\* C1: after modify_xml no team_name element remains anywhere below any
\* parameters element of the output tree; this includes team_name elements
\* nested deeper than a child, and a parameters element that is the root.
NoTeamNameUnderParameters ==
    XmlOut =>
        \A p \in Range(Elements(DerefXml(heap, modified_data))) :
            p.tag = "parameters" => \A d \in Below(p) : d.tag # "team_name"

CountKids(e, tag) == Len(SelectSeq(e.children, LAMBDA c : c.tag = tag))

\* what C2 says of an element o of the original and the element m that the
\* output holds in its place
RECURSIVE Gained(_, _)
Gained(o, m) ==
    /\ o.tag = "parameters" =>
          /\ m.children # <<>>
          /\ Last(m.children).tag = "something"
          /\ Last(m.children).text = <<"2">>
          /\ CountKids(m, "something") = CountKids(o, "something") + 1
    /\ \A i \in 1..Len(o.children) :
          i <= Len(m.children) /\ Gained(o.children[i], m.children[i])

HasTag(e, tag) == \E d \in Range(Elements(e)) : d.tag = tag

\* C2: every parameters element of the tree, a parameters root and a
\* parameters element inside another one included, has after modify_xml
\* exactly one more something child than in the original; that child is its
\* last child and has the text "2". Stated for the trees without team_name,
\* in which the output holds every element at the place it had.
SomethingGained ==
    XmlOut /\ ~HasTag(loaded[1], "team_name") =>
        Gained(loaded[1], DerefXml(heap, modified_data))

\* the run is past the call of modify_json on a list, returned or not
ListTransformed ==
    /\ loaded # <<>>
    /\ file_type = "json"
    /\ loaded[1].t = "list"
    /\ pc \in {"modified", "diffed", "rendered", "end", "crashed"}

Value(v, key) == v.items[CHOOSE i \in 1..Len(v.items) : v.items[i].k = key].v

Rewritten(v) ==
    /\ HasKey(v.items, <<"user_query">>) /\ Value(v, <<"user_query">>) = JStr(UserQuery)
    /\ HasKey(v.items, <<"new">>) /\ Value(v, <<"new">>) = JStr(<<"Something">>)
    /\ HasKey(v.items, <<"parameters">>) /\ Value(v, <<"parameters">>).t = "dict" =>
          ~HasKey(Value(v, <<"parameters">>).items, OffensivePlayer)

\* C3: for a JSON list, modify_json returns a list of the same length in
\* which every element that is a mapping has user_query equal to the fixed
\* string, new equal to "Something" and no offensive_player key inside its
\* parameters value, whatever the type of that value.
RecordsRewritten ==
    ListTransformed =>
        /\ pc # "crashed"
        /\ DerefJson(heap, modified_data).t = "list"
        /\ Len(DerefJson(heap, modified_data).items) = Len(loaded[1].items)
        /\ \A i \in 1..Len(DerefJson(heap, modified_data).items) :
              DerefJson(heap, modified_data).items[i].v.t = "dict" =>
                  Rewritten(DerefJson(heap, modified_data).items[i].v)

\* C4: the transformer never mutates the original document: once modify_json
\* or modify_xml has returned, the original is the value that was loaded, and
\* no object of the returned document is an object of the original. The
\* original is the loaded value also when modify_json raises.
OriginalUntouched ==
    /\ Transformed =>
          /\ Document(heap, original_data, file_type) = loaded[1]
          /\ Reach(heap, original_data, file_type)
                 \cap Reach(heap, modified_data, file_type) = {}
    /\ pc = "crashed" /\ loaded # <<>> =>
          Document(heap, original_data, file_type) = loaded[1]

\* a transformation that returned a document different from the original
OriginalUntouchedReached ==
    /\ pc = "modified"
    /\ loaded # <<>>
    /\ file_type = "xml"
    /\ HasTag(loaded[1], "team_name")
    /\ DerefXml(heap, modified_data) # loaded[1]

\* C5: the transformer never raises: for every document the detector accepts
\* modify_json or modify_xml returns; no run stops in the transformer.
TransformerReturns == ~(pc = "crashed" /\ loaded # <<>>)

AcceptedAsJson(text) ==
    StartsWithAny(Strip(text), {Punct("{"), Punct("[")}) /\ json_loads(Strip(text)).ok

AcceptedAsXml(text) == LooksLikeXml(Strip(text)) /\ ET_fromstring(Strip(text)).ok

Detected(text) == IF AcceptedAsJson(text) THEN "json" ELSE "xml"

Shown(w) == \E i \in 1..Len(page) : page[i].w = w

\* C6: a text accepted by neither detector branch ends the run with the
\* error notice and nothing else: no format notice, no diff, no download.
\* A diff or a download is on the page only when detection returned JSON or
\* XML, and the format notice, the transformation and the download use the
\* format detection returned.
UnsupportedFormatEndsRun ==
    pc \notin {"idle", "no_file", "uploaded"} =>
        /\ ~AcceptedAsJson(content) /\ ~AcceptedAsXml(content) =>
              /\ pc = "end"
              /\ page = Append(PageTop, Widget("error", UnsupportedFormat, <<>>, "", ""))
              /\ loaded = <<>>
        /\ Shown("info") \/ Shown("subheader") \/ Shown("markdown")
               \/ Shown("download_button") =>
              /\ AcceptedAsJson(content) \/ AcceptedAsXml(content)
              /\ ~Shown("error")
              /\ file_type = Detected(content)
              /\ \A i \in 1..Len(page) :
                    /\ page[i].w = "info" => page[i].text = Upper(Detected(content))
                    /\ page[i].w = "download_button" =>
                          /\ page[i].text = Upper(Detected(content))
                          /\ page[i].file_name = Detected(content)
        /\ file_type # "" => file_type = Detected(content)

\* a text that is neither format, refused with the error notice
UnsupportedFormatReached ==
    /\ pc = "end"
    /\ content # <<>>
    /\ LooksLikeXml(Strip(content))
    /\ ~AcceptedAsXml(content)
    /\ Shown("error")

\* generate_diff has returned
Diffed == pc \in {"diffed", "rendered", "end", "crashed"}

\* None, {} and [], and an element without children
EmptyDocument(h, r, ft) ==
    \/ r = 0
    \/ ft = "json" /\ h[r].t \in {"dict", "list"} /\ h[r].items = <<>>
    \/ ft = "xml" /\ h[r].children = <<>>

\* C7: generate_diff returns no line whenever the original or the modified
\* document is empty (None, {}, [], an element without children), also when
\* the two documents serialize to different text.
EmptyDocumentEmptyDiff ==
    /\ Diffed
    /\ \/ EmptyDocument(heap, original_data, file_type)
       \/ EmptyDocument(heap, modified_data, file_type)
    => diff_lines = <<>>

\* an empty original against a modified document with other text
EmptyDocumentEmptyDiffReached ==
    /\ pc = "diffed"
    /\ original_data # 0
    /\ modified_data # 0
    /\ EmptyDocument(heap, original_data, file_type)
    /\ ~EmptyDocument(heap, modified_data, file_type)
    /\ PrettyText(heap, original_data, file_type) # PrettyText(heap, modified_data, file_type)
    /\ diff_lines = <<>>

Marker(line) == line[1].v

Unmarked(lines) == [i \in 1..Len(lines) |-> SubSeq(lines[i], 3, Len(lines[i]))]

With(lines, markers) == SelectSeq(lines, LAMBDA l : Marker(l) \in markers)

\* C8: the diff of a document against itself has only context lines: no
\* added, removed or hint line; for a non-empty document they are the lines
\* of its pretty-printed text, in order.
SelfDiffIsContext ==
    /\ Diffed
    /\ original_data # 0
    /\ modified_data # 0
    /\ Document(heap, original_data, file_type) = Document(heap, modified_data, file_type)
    => /\ \A i \in 1..Len(diff_lines) :
             Marker(diff_lines[i]) = " " /\ diff_lines[i][2] = Space
       /\ ~EmptyDocument(heap, original_data, file_type) =>
             Unmarked(diff_lines) = SplitLines(PrettyText(heap, original_data, file_type))

\* a non-empty document diffed against itself
SelfDiffIsContextReached ==
    /\ pc = "diffed"
    /\ original_data # 0
    /\ modified_data = original_data
    /\ Len(diff_lines) > 2

\* the download text of a finished run, and its document
Download == Last(page).data

Reparsed ==
    IF file_type = "json" THEN json_loads(Download).v ELSE ET_fromstring(Download).elem

Blank(text) == \A i \in 1..Len(text) : text[i] \in {" ", "  ", "\n"}

\* an element tree with white space that stands alone read as no text
RECURSIVE Significant(_)
Significant(e) ==
    Element(e.tag, e.attrib,
            IF Blank(e.text) THEN <<>> ELSE e.text,
            IF Blank(e.tail) THEN <<>> ELSE e.tail,
            [i \in 1..Len(e.children) |-> Significant(e.children[i])])

\* C9: pretty-printing a document (json.dumps with indent 2, prettify_xml)
\* and parsing the text again gives an equivalent document: the same
\* elements and keys in the same order, the same attributes, the same text,
\* also for an element that has both text and child elements. Text that is
\* white space only is read as no text.
PrettyRoundTrip ==
    pc = "end" /\ Shown("download_button") =>
        IF file_type = "json"
        THEN json_loads(Download).ok /\ Reparsed = DerefJson(heap, modified_data)
        ELSE /\ ET_fromstring(Download).ok
             /\ Significant(Reparsed) = Significant(DerefXml(heap, modified_data))

HtmlAt(k) ==
    SelectSeq([i \in 1..Len(Last(page).data) |-> i], LAMBDA i : Last(page).data[i].k = k)

\* the div elements of the rendered text, when the text is nothing but divs
DivsOf(html, opens, closes) ==
    IF /\ Len(opens) = Len(closes)
       /\ \A n \in 1..Len(opens) :
             /\ opens[n] < closes[n]
             /\ opens[n] = (IF n = 1 THEN 1 ELSE closes[n - 1] + 1)
       /\ Len(html) = (IF closes = <<>> THEN 0 ELSE Last(closes))
    THEN [n \in 1..Len(opens) |->
             [style |-> html[opens[n]].v, line |-> SubSeq(html, opens[n] + 1, closes[n] - 1)]]
    ELSE << [style |-> "not a run of div elements", line |-> <<>>] >>

StyleOf(line) ==
    CASE Marker(line) = "+" -> "background-color: #a8ffa8"
      [] Marker(line) = "-" -> "background-color: #ffb3b3"
      [] OTHER -> ""

Styled(lines) == [n \in 1..Len(lines) |-> [style |-> StyleOf(lines[n]), line |-> lines[n]]]

\* C10: a non-empty diff interleaves both documents faithfully: its context
\* and removed lines, without markers, are the lines of the original's
\* pretty-printed text, its context and added lines those of the modified
\* document's pretty-printed text, which is the text offered for download;
\* format_diff_html renders every line but the hint lines, once, in order.
FaithfulDiff ==
    Diffed /\ diff_lines # <<>> =>
        /\ Unmarked(With(diff_lines, {" ", "-"}))
               = SplitLines(PrettyText(heap, original_data, file_type))
        /\ Unmarked(With(diff_lines, {" ", "+"}))
               = SplitLines(PrettyText(heap, modified_data, file_type))
        /\ \A i \in 1..Len(diff_lines) : Marker(diff_lines[i]) \in {" ", "-", "+", "?"}
        /\ pc = "rendered" =>
              /\ Last(page).w = "markdown"
              /\ DivsOf(Last(page).data, HtmlAt("div"), HtmlAt("/div"))
                     = Styled(With(diff_lines, {" ", "-", "+"}))
        /\ pc = "end" =>
              /\ Last(page).w = "download_button"
              /\ Download = JoinLines(Unmarked(With(diff_lines, {" ", "+"})))

\* a rendered diff with context, removed, added and hint lines
FaithfulDiffReached ==
    /\ pc = "rendered"
    /\ \A m \in {" ", "-", "+", "?"} : With(diff_lines, {m}) # <<>>

=============================================================================
